---- MODULE Spec2Model ----
(***************************************************************************)
(* Model of the two source adapters of the financial dashboard:            *)
(*   CBRService  (app/services/cbr_service.py,  "RateAdapter")             *)
(*   MOEXService (app/services/moex_service.py, "QuoteAdapter")            *)
(*                                                                         *)
(* Numbers.  Python floats are modelled as exact decimal fixed-point       *)
(* integers.  A currency value n stands for n * 10^-5, so round(x, 4)      *)
(* keeps multiples of 10.  A stock price n stands for n * 10^-3, so        *)
(* round(x, 2) keeps multiples of 10 as well.  Binary floating-point error *)
(* is not modelled; rounding is Python's round-half-even on the exact      *)
(* value.                                                                  *)
(*                                                                         *)
(* JSON values are records tagged by k: "num", "str", "null", "arr", "obj".*)
(* Python exceptions are strings naming the class that was raised; a       *)
(* try/except is modelled by matching the class against the handler list.  *)
(***************************************************************************)
EXTENDS Integers, Sequences, FiniteSets, TLC

VARIABLES
    tracked_currencies,  \* CBRService.tracked_currencies (a mutable list)
    cache,               \* CBRService._cache
    cache_timestamp,     \* CBRService._cache_timestamp
    popular_tickers,     \* MOEXService.popular_tickers (a mutable list)
    now,                 \* the wall clock read by datetime.now()
    pc,                  \* per call: where the coroutine is suspended
    op,                  \* per call: the operation invoked and its argument
    resp,                \* per call: what the upstream answered to this call
    ret,                 \* per call: what the operation returned or raised
    quotes_succeeded,    \* history: some get_stock_prices has returned quotes
    batch,               \* per call: what the get_rates / get_stock_prices
                         \* this call awaited returned (rates, stocks)
    listed,              \* what the last call for a list of supported keys
                         \* answered
    held,                \* the list object that answer handed to its caller
    http,                \* per call: the HTTP answer of the handler that
                         \* made the call
    gets                 \* per call: the outbound GETs the operation has
                         \* issued since it was invoked

vars == <<tracked_currencies, cache, cache_timestamp, popular_tickers,
          now, pc, op, resp, ret, quotes_succeeded, batch, listed, held, http,
          gets>>

(***************************************************************************)
(* Bounds of the model.                                                    *)
(***************************************************************************)
MaxClock == 1        \* the clock ticks at most this many times
MaxRows == 2         \* rows in an upstream market-data table

(***************************************************************************)
(* Python values.                                                          *)
(***************************************************************************)
Num(n) == [k |-> "num", v |-> n]
Str(s) == [k |-> "str", s |-> s]
Null == [k |-> "null"]
Arr(a) == [k |-> "arr", a |-> a]
Obj(f) == [k |-> "obj", f |-> f]

EmptyDict == <<>>

\* Optional[...]: None or a value.
None == [set |-> FALSE, m |-> EmptyDict]
Some(m) == [set |-> TRUE, m |-> m]

\* Python truthiness of an Optional[dict]: None and {} are both falsy.
Truthy(o) == o.set /\ o.m # EmptyDict

\* dict.get(key) on a dict of records: the record or None.
DictGet(d, key) == IF key \in DOMAIN d THEN Some(d[key]) ELSE None

\* d[key] = value on a dict.
DictSet(d, key, value) ==
    [x \in DOMAIN d \cup {key} |-> IF x = key THEN value ELSE d[x]]

(***************************************************************************)
(* Exceptions: the classes each raised exception is an instance of.        *)
(***************************************************************************)
NoExc == "none"

ExcBases(e) ==
    CASE e = "ClientConnectorError" -> {e, "ClientError", "Exception"}
      [] e = "ClientPayloadError"   -> {e, "ClientError", "Exception"}
      [] e = "ContentTypeError"     -> {e, "ClientError", "Exception"}
      [] e = "TimeoutError"         -> {e, "Exception"}
      [] e = "JSONDecodeError"      -> {e, "ValueError", "Exception"}
      [] e = "KeyError"             -> {e, "LookupError", "Exception"}
      [] e = "ValueError"           -> {e, "Exception"}
      [] e = "TypeError"            -> {e, "Exception"}
      [] e = "AttributeError"       -> {e, "Exception"}
      [] e = "ZeroDivisionError"    -> {e, "ArithmeticError", "Exception"}
      [] e = "HTTPException"        -> {e, "Exception"}
      [] OTHER                      -> {e}

IsInstance(e, cls) == e # NoExc /\ cls \in ExcBases(e)

\* The result of evaluating an expression: a value, or an exception raised.
Ok(v) == [exc |-> NoExc, val |-> v]
Raise(e) == [exc |-> e, val |-> EmptyDict]

(***************************************************************************)
(* float(x) and round(x, ndigits).                                         *)
(***************************************************************************)
\* The strings float() accepts, with the number each denotes (in the
\* fixed-point unit of the adapter that parses it).
NumericStrings == [s \in {"0.00100"} |-> 100]

\* float(x): a number is kept, a numeric string is parsed, any other string
\* raises ValueError, and None, a list or a dict raises TypeError.
PyFloat(x) ==
    CASE x.k = "num" -> Ok(x.v)
      [] x.k = "str" -> IF x.s \in DOMAIN NumericStrings
                        THEN Ok(NumericStrings[x.s])
                        ELSE Raise("ValueError")
      [] OTHER       -> Raise("TypeError")

\* n / d rounded to the nearest integer, ties to even (d # 0).
RoundHalfEven(n, d) ==
    LET nn == IF d < 0 THEN -n ELSE n
        dd == IF d < 0 THEN -d ELSE d
        q == nn \div dd
        r == nn % dd
    IN  IF 2 * r < dd THEN q
        ELSE IF 2 * r > dd THEN q + 1
        ELSE IF q % 2 = 0 THEN q ELSE q + 1

\* round(n / d, ndigits) where the fixed-point unit has ndigits + 1 decimals:
\* the nearest multiple of 10.
PyRound(n, d) == 10 * RoundHalfEven(n, 10 * d)

(***************************************************************************)
(* CBRService: the record type and the parser.                             *)
(***************************************************************************)
\* CurrencyRate(...): the field validator rounds rate, change and
\* change_percent to 4 decimals (a negative value is logged and kept).
\* change_percent arrives as the exact quotient pctN / pctD.
CurrencyRate(code, rate, change, pctN, pctD, timestamp) ==
    [currency       |-> code \o "/RUB",
     rate           |-> PyRound(rate, 1),
     change         |-> PyRound(change, 1),
     change_percent |-> PyRound(pctN, pctD),
     timestamp      |-> timestamp]

\* data.get("Valute", {}): data must be a dict.
GetValute(data) ==
    IF data.k # "obj" THEN Raise("AttributeError")
    ELSE IF "Valute" \in DOMAIN data.f THEN Ok(data.f["Valute"])
    ELSE Ok(Obj(EmptyDict))

\* currency_code in <valute>: key membership on a dict, element membership
\* on a list, TypeError on null or a number.  (A string valute table, where
\* "in" is a substring test, is not among the modelled payloads.)
PyContains(code, valute) ==
    CASE valute.k = "obj" -> Ok(code \in DOMAIN valute.f)
      [] valute.k = "arr" ->
            Ok(\E i \in DOMAIN valute.a : valute.a[i] = Str(code))
      [] valute.k \in {"null", "num"} -> Raise("TypeError")

\* x[key] with a string key: the entry of a dict (KeyError if absent);
\* TypeError on anything else.
PyGetItem(x, key) ==
    IF x.k # "obj" THEN Raise("TypeError")
    ELSE IF key \in DOMAIN x.f THEN Ok(x.f[key])
    ELSE Raise("KeyError")

\* float(valute_data[field])
FloatField(valute_data, field) ==
    LET item == PyGetItem(valute_data, field)
    IN  IF item.exc # NoExc THEN item ELSE PyFloat(item.val)

\* Mutant: the quotient is not scaled to a percentage.
ChangePercentFraction(change, previous) ==
    IF previous # 0
    THEN [n |-> change * 100000, d |-> previous]
    ELSE [n |-> 0, d |-> 1]

\* The percent change: (change / previous) * 100 as an exact quotient in the
\* fixed-point unit, or 0.0 when previous is 0.
ChangePercent(change, previous) ==
    IF previous # 0
    THEN [n |-> change * 10000000, d |-> previous]
    ELSE [n |-> 0, d |-> 1]

\* One iteration of the loop over tracked_currencies: the body of the for
\* statement.  val is the rates dict after the iteration.
ParseRatesStep(data, currency_code, rates, t) ==
    LET valute == GetValute(data)
    IN  IF valute.exc # NoExc THEN Raise(valute.exc) ELSE
    LET has == PyContains(currency_code, valute.val)
    IN  IF has.exc # NoExc THEN Raise(has.exc) ELSE
        IF ~has.val THEN Ok(rates) ELSE
    LET valute_data == PyGetItem(valute.val, currency_code)
    IN  IF valute_data.exc # NoExc THEN Raise(valute_data.exc) ELSE
    LET current_value == FloatField(valute_data.val, "Value")
    IN  IF current_value.exc # NoExc THEN Raise(current_value.exc) ELSE
    LET previous_value == FloatField(valute_data.val, "Previous")
    IN  IF previous_value.exc # NoExc THEN Raise(previous_value.exc) ELSE
    LET change == current_value.val - previous_value.val
        pct == ChangePercent(change, previous_value.val)
    IN  Ok(DictSet(rates, currency_code,
                   CurrencyRate(currency_code, current_value.val, change,
                                pct.n, pct.d, t)))

\* The for loop of _parse_rates from position i on.
RECURSIVE ParseRatesLoop(_, _, _, _, _)
ParseRatesLoop(data, codes, i, rates, t) ==
    IF i > Len(codes) THEN Ok(rates)
    ELSE LET step == ParseRatesStep(data, codes[i], rates, t)
         IN  IF step.exc # NoExc THEN step
             ELSE ParseRatesLoop(data, codes, i + 1, step.val, t)

\* Mutant: _parse_rates without its except clauses.
ParseRatesPropagates(data, codes, t) ==
    ParseRatesLoop(data, codes, 1, EmptyDict, t)

\* _parse_rates: KeyError and ValueError end in an empty dict, any other
\* exception leaves the method.
ParseRates(data, codes, t) ==
    LET body == ParseRatesLoop(data, codes, 1, EmptyDict, t)
    IN  IF IsInstance(body.exc, "KeyError") THEN Ok(EmptyDict)
        ELSE IF IsInstance(body.exc, "ValueError") THEN Ok(EmptyDict)
        ELSE body

(***************************************************************************)
(* CBRService.get_rates, cut at its two network awaits.                    *)
(***************************************************************************)
\* self._cache or {}
CacheOrEmpty(c) == IF Truthy(c) THEN c.m ELSE EmptyDict

\* Mutant: the except clauses return {} instead of the cached mapping.
GetRatesExceptNoFallback(e, c) ==
    IF IsInstance(e, "Exception") THEN Ok(EmptyDict) ELSE Raise(e)

\* Mutant: only aiohttp.ClientError is caught.
GetRatesExceptClientErrorOnly(e, c) ==
    IF IsInstance(e, "ClientError") THEN Ok(CacheOrEmpty(c)) ELSE Raise(e)

\* The except clauses of get_rates: aiohttp.ClientError, then Exception.
\* Both return self._cache or {}; anything else leaves the method.
GetRatesExcept(e, c) ==
    IF IsInstance(e, "ClientError") THEN Ok(CacheOrEmpty(c))
    ELSE IF IsInstance(e, "Exception") THEN Ok(CacheOrEmpty(c))
    ELSE Raise(e)

\* What a resumed coroutine does: go on to the next await (done = FALSE), or
\* finish with a result; cache / cache_timestamp are the values it leaves.
Continue(c, ts) ==
    [done |-> FALSE, result |-> Ok(EmptyDict), cache |-> c, cache_timestamp |-> ts]
Finish(result, c, ts) ==
    [done |-> TRUE, result |-> result, cache |-> c, cache_timestamp |-> ts]

\* Mutant: a status other than 200 discards the cache.
GetRatesOnResponseDropsCache(h, c, ts) ==
    IF h.exc # NoExc THEN Finish(GetRatesExcept(h.exc, c), c, ts)
    ELSE IF h.status # 200 THEN Finish(Ok(EmptyDict), None, None)
    ELSE Continue(c, ts)

\* get_rates resumed when session.get(...) completes with answer h:
\* an exception goes to the except clauses, a status other than 200 returns
\* {}, status 200 goes on to await response.text().
GetRatesOnResponse(h, c, ts) ==
    IF h.exc # NoExc THEN Finish(GetRatesExcept(h.exc, c), c, ts)
    ELSE IF h.status # 200 THEN Finish(Ok(EmptyDict), c, ts)
    ELSE Continue(c, ts)

\* json.loads(text): the decoded value, or JSONDecodeError.
JsonLoads(text) == IF text.valid THEN Ok(text.json) ELSE Raise("JSONDecodeError")

\* Mutant: the parsed rates are returned without being stored.
GetRatesOnTextNoStore(b, c, ts, codes, t) ==
    IF b.exc # NoExc THEN Finish(GetRatesExcept(b.exc, c), c, ts) ELSE
    LET data == JsonLoads(b.text)
    IN  IF IsInstance(data.exc, "JSONDecodeError")
        THEN Finish(Ok(EmptyDict), c, ts)
        ELSE
    LET rates == ParseRates(data.val, codes, t)
    IN  IF rates.exc # NoExc THEN Finish(GetRatesExcept(rates.exc, c), c, ts)
        ELSE Finish(Ok(rates.val), c, ts)

\* Mutant: the parsed rates are stored without the timestamp.
GetRatesOnTextCacheOnly(b, c, ts, codes, t) ==
    IF b.exc # NoExc THEN Finish(GetRatesExcept(b.exc, c), c, ts) ELSE
    LET data == JsonLoads(b.text)
    IN  IF IsInstance(data.exc, "JSONDecodeError")
        THEN Finish(Ok(EmptyDict), c, ts)
        ELSE
    LET rates == ParseRates(data.val, codes, t)
    IN  IF rates.exc # NoExc THEN Finish(GetRatesExcept(rates.exc, c), c, ts)
        ELSE Finish(Ok(rates.val), Some(rates.val), ts)

\* get_rates resumed when response.text() completes with answer b: decode,
\* parse, replace the cache and its timestamp, return the parsed rates.
GetRatesOnText(b, c, ts, codes, t) ==
    IF b.exc # NoExc THEN Finish(GetRatesExcept(b.exc, c), c, ts) ELSE
    LET data == JsonLoads(b.text)
    IN  IF IsInstance(data.exc, "JSONDecodeError")
        THEN Finish(Ok(EmptyDict), c, ts)
        ELSE
    LET rates == ParseRates(data.val, codes, t)
    IN  IF rates.exc # NoExc THEN Finish(GetRatesExcept(rates.exc, c), c, ts)
        ELSE Finish(Ok(rates.val), Some(rates.val), Some(t))

\* str.upper() on the keys callers pass.
PyUpper(s) ==
    CASE s = "usd"  -> "USD"
      [] s = "Eur"  -> "EUR"
      [] s = "xyz"  -> "XYZ"
      [] s = "sber" -> "SBER"
      [] s = "Vtbr" -> "VTBR"
      [] s = "aapl" -> "AAPL"
      [] OTHER      -> s

\* Mutant: the key is looked up as given.
GetSpecificAsGiven(fetched, key) ==
    IF fetched.exc # NoExc THEN fetched
    ELSE Ok(DictGet(fetched.val, key))

\* get_specific_rate / get_specific_stock after the awaited fetch returned
\* `fetched`: rates.get(currency.upper()).
GetSpecific(fetched, key) ==
    IF fetched.exc # NoExc THEN fetched
    ELSE Ok(DictGet(fetched.val, PyUpper(key)))

(***************************************************************************)
(* Upstream answers of the currency feed.                                  *)
(***************************************************************************)
Status(n) == [exc |-> NoExc, status |-> n]
Failed(e) == [exc |-> e, status |-> 0]
NoHead == [exc |-> NoExc, status |-> 0]

Body(valid, json) == [exc |-> NoExc, text |-> [valid |-> valid, json |-> json]]
BodyFailed(e) == [exc |-> e, text |-> [valid |-> FALSE, json |-> Null]]
NoBody == BodyFailed(NoExc)

RateHeads ==
    {Failed("ClientConnectorError"), Failed("TimeoutError"),
     Status(200), Status(404), Status(500)}

Entry(value, previous) == Obj([Value |-> value, Previous |-> previous])

GoodEntries ==
    {Entry(Num(150), Num(100)), Entry(Num(126), Num(0)),
     Entry(Str("0.00100"), Num(30)), Entry(Num(-20), Num(40))}

BadEntries ==
    {Obj([Previous |-> Num(100)]),          \* no Value
     Obj([Value |-> Num(150)]),             \* no Previous
     Entry(Num(150), Str("n/a")),           \* a non-numeric string
     Entry(Null, Num(100)),                 \* a null Value
     Entry(Num(150), Null),                 \* a null Previous
     Null}                                  \* the entry is no object

\* A valuta table: each code is absent or carries one entry.
Absent == [k |-> "absent"]
Table(usd, eur, xau) ==
    LET pick == [c \in {"USD", "EUR", "XAU"} |->
                    IF c = "USD" THEN usd ELSE IF c = "EUR" THEN eur ELSE xau]
        codes == {c \in DOMAIN pick : pick[c] # Absent}
    IN  Obj([Valute |-> Obj([c \in codes |-> pick[c]])])

RateTables ==
    {Table(usd, eur, xau) :
        usd \in {Absent} \cup GoodEntries \cup BadEntries,
        eur \in {Absent, Entry(Num(150), Num(100)), Obj([Previous |-> Num(100)]),
                 Entry(Num(150), Str("n/a")), Entry(Null, Num(100))},
        xau \in {Absent, Entry(Num(150), Num(100))}}

RatePayloads ==
    RateTables \cup
    {Null,                                   \* the document is no object
     Obj(EmptyDict),                         \* no Valute key
     Obj([Valute |-> Null]),                 \* Valute is null
     Obj([Valute |-> Arr(<<Str("USD")>>)])}  \* Valute is a list

RateBodies ==
    {BodyFailed("ClientPayloadError"), Body(FALSE, Null)} \cup
    {Body(TRUE, d) : d \in RatePayloads}

(***************************************************************************)
(* MOEXService: the record type and the parser.                            *)
(***************************************************************************)
\* StockData(...): price and volume are validated >= 0 (pydantic raises
\* ValidationError, a ValueError, otherwise).
StockData(ticker, price, change_percent, volume, timestamp) ==
    IF price < 0 \/ volume < 0 THEN Raise("ValidationError")
    ELSE Ok([ticker         |-> ticker,
             price          |-> price,
             change_percent |-> change_percent,
             volume         |-> volume,
             timestamp      |-> timestamp])

\* x.get(key, default) on a JSON value: x must be a dict.
PyGet(x, key, default) ==
    IF x.k # "obj" THEN Raise("AttributeError")
    ELSE IF key \in DOMAIN x.f THEN Ok(x.f[key])
    ELSE Ok(default)

\* len(x): defined on lists, dicts and strings.
PyLen(x) ==
    CASE x.k = "arr" -> Ok(Len(x.a))
      [] x.k = "obj" -> Ok(Cardinality(DOMAIN x.f))
      [] x.k \in {"null", "num"} -> Raise("TypeError")

\* columns.index(name): the 0-based position of the first occurrence in a
\* list, ValueError if there is none; null has no such method.
ColumnIndex(columns, name) ==
    IF columns.k # "arr" THEN Raise("AttributeError")
    ELSE LET hits == {i \in DOMAIN columns.a : columns.a[i] = Str(name)}
         IN  IF hits = {} THEN Raise("ValueError")
             ELSE Ok((CHOOSE i \in hits : \A j \in hits : i <= j) - 1)

Max3(a, b, c) ==
    IF a >= b /\ a >= c THEN a ELSE IF b >= c THEN b ELSE c

\* Mutant: x >= 0.
GreaterOrEqualZero(x) ==
    IF x.k = "num" THEN Ok(x.v >= 0) ELSE Raise("TypeError")

\* x > 0: defined on numbers, TypeError on a string, a list or a dict.
GreaterThanZero(x) ==
    IF x.k = "num" THEN Ok(x.v > 0) ELSE Raise("TypeError")

\* Mutant: any string ticker passes the filter.
IsPopularAny(ticker, tickers) == ticker.k = "str"

\* ticker in self.popular_tickers
IsPopular(ticker, tickers) ==
    ticker.k = "str" /\ \E i \in DOMAIN tickers : tickers[i] = ticker.s

\* The body of the try inside the for loop, for one row `item`: val is the
\* stocks dict after the row.
ParseStocksRow(item, secid_idx, last_idx, open_idx, stocks, tickers, t) ==
    LET n == PyLen(item)
    IN  IF n.exc # NoExc THEN Raise(n.exc) ELSE
        IF ~(n.val > Max3(secid_idx, last_idx, open_idx)) THEN Ok(stocks) ELSE
    LET ticker == item.a[secid_idx + 1]
        last_price == item.a[last_idx + 1]
        open_price == item.a[open_idx + 1]
    IN  IF ~IsPopular(ticker, tickers) THEN Ok(stocks) ELSE
        IF last_price = Null THEN Ok(stocks) ELSE
        IF open_price = Null THEN Ok(stocks) ELSE
    LET positive == GreaterThanZero(last_price)
    IN  IF positive.exc # NoExc THEN Raise(positive.exc) ELSE
        IF ~positive.val THEN Ok(stocks) ELSE
    LET has_open == GreaterThanZero(open_price)
    IN  IF has_open.exc # NoExc THEN Raise(has_open.exc) ELSE
        \* a division by 0 raises; the guard open_price > 0 excludes it
        IF has_open.val /\ open_price.v = 0 THEN Raise("ZeroDivisionError") ELSE
    LET change_percent ==
            IF has_open.val
            THEN PyRound((last_price.v - open_price.v) * 100000, open_price.v)
            ELSE 0
        price == PyFloat(last_price)
    IN  IF price.exc # NoExc THEN Raise(price.exc) ELSE
    LET stock == StockData(ticker.s, price.val, change_percent, 0, t)
    IN  IF stock.exc # NoExc THEN Raise(stock.exc)
        ELSE Ok(DictSet(stocks, ticker.s, stock.val))

\* Mutant: a row that raises ends the loop with an empty result.
RECURSIVE ParseStocksLoopAbort(_, _, _, _, _, _, _, _)
ParseStocksLoopAbort(rows, i, secid_idx, last_idx, open_idx, stocks, tickers, t) ==
    IF i > Len(rows) THEN stocks
    ELSE LET row == ParseStocksRow(rows[i], secid_idx, last_idx, open_idx,
                                   stocks, tickers, t)
         IN  IF row.exc # NoExc THEN EmptyDict
             ELSE ParseStocksLoopAbort(rows, i + 1, secid_idx, last_idx,
                                       open_idx, row.val, tickers, t)

\* The for loop over market_data_list from position i on: a row that raises
\* is logged and skipped.
RECURSIVE ParseStocksLoop(_, _, _, _, _, _, _, _)
ParseStocksLoop(rows, i, secid_idx, last_idx, open_idx, stocks, tickers, t) ==
    IF i > Len(rows) THEN stocks
    ELSE LET row == ParseStocksRow(rows[i], secid_idx, last_idx, open_idx,
                                   stocks, tickers, t)
         IN  ParseStocksLoop(rows, i + 1, secid_idx, last_idx, open_idx,
                             IF IsInstance(row.exc, "Exception")
                             THEN stocks ELSE row.val,
                             tickers, t)

\* The body of the outer try of _parse_stocks_response.
ParseStocksBody(data, tickers, t) ==
    LET marketdata == PyGet(data, "marketdata", Obj(EmptyDict))
    IN  IF marketdata.exc # NoExc THEN Raise(marketdata.exc) ELSE
    LET columns == PyGet(marketdata.val, "columns", Arr(<<>>))
    IN  IF columns.exc # NoExc THEN Raise(columns.exc) ELSE
    LET market_data_list == PyGet(marketdata.val, "data", Arr(<<>>))
        secid_idx == ColumnIndex(columns.val, "SECID")
        last_idx == ColumnIndex(columns.val, "LAST")
        open_idx == ColumnIndex(columns.val, "OPEN")
        missing == IF secid_idx.exc # NoExc THEN secid_idx.exc
                   ELSE IF last_idx.exc # NoExc THEN last_idx.exc
                   ELSE open_idx.exc
    IN  IF IsInstance(missing, "ValueError") THEN Ok(EmptyDict)
        ELSE IF missing # NoExc THEN Raise(missing)
        ELSE IF market_data_list.val.k # "arr" THEN Raise("TypeError")
        ELSE Ok(ParseStocksLoop(market_data_list.val.a, 1, secid_idx.val,
                                last_idx.val, open_idx.val, EmptyDict,
                                tickers, t))

\* _parse_stocks_response: KeyError, ValueError and any other Exception end
\* in an empty dict.
ParseStocksResponse(data, tickers, t) ==
    LET body == ParseStocksBody(data, tickers, t)
    IN  IF IsInstance(body.exc, "KeyError") THEN Ok(EmptyDict)
        ELSE IF IsInstance(body.exc, "ValueError") THEN Ok(EmptyDict)
        ELSE IF IsInstance(body.exc, "Exception") THEN Ok(EmptyDict)
        ELSE body

(***************************************************************************)
(* MOEXService.get_stock_prices, cut at its two network awaits.            *)
(***************************************************************************)
\* The except clause of _fetch_stocks_data: any Exception returns {}.
FetchStocksExcept(e) ==
    IF IsInstance(e, "Exception") THEN Ok(EmptyDict) ELSE Raise(e)

\* The except clauses of get_stock_prices around the awaited
\* _fetch_stocks_data: aiohttp.ClientError, then Exception; both return {}.
GetStockPricesExcept(fetched) ==
    IF IsInstance(fetched.exc, "ClientError") THEN Ok(EmptyDict)
    ELSE IF IsInstance(fetched.exc, "Exception") THEN Ok(EmptyDict)
    ELSE fetched

\* The statements that log the structure of the answer before it is parsed:
\* data.keys(), marketdata.get('columns', []), len(marketdata.get('data', [])).
LogStructure(data) ==
    IF data.k # "obj" THEN Raise("AttributeError")
    ELSE IF "marketdata" \notin DOMAIN data.f THEN Ok(EmptyDict)
    ELSE LET entries == PyGet(data.f["marketdata"], "data", Arr(<<>>))
         IN  IF entries.exc # NoExc THEN Raise(entries.exc)
             ELSE LET n == PyLen(entries.val)
                  IN  IF n.exc # NoExc THEN Raise(n.exc) ELSE Ok(EmptyDict)

\* Mutant: the status of the answer is not checked.
GetStockPricesOnResponseAnyStatus(h, c, ts) ==
    IF h.exc # NoExc
    THEN Finish(Ok(EmptyDict), c, ts)
    ELSE Continue(c, ts)

\* get_stock_prices resumed when session.get(...) completes with answer h.
GetStockPricesOnResponse(h, c, ts) ==
    IF h.exc # NoExc
    THEN Finish(GetStockPricesExcept(FetchStocksExcept(h.exc)), c, ts)
    ELSE IF h.status # 200
    THEN Finish(GetStockPricesExcept(Ok(EmptyDict)), c, ts)
    ELSE Continue(c, ts)

\* get_stock_prices resumed when response.json() completes with answer b.
GetStockPricesOnJson(b, c, ts, tickers, t) ==
    LET data == IF b.exc # NoExc THEN Raise(b.exc) ELSE JsonLoads(b.text)
        logged == IF data.exc # NoExc THEN Raise(data.exc)
                  ELSE LogStructure(data.val)
        fetched == IF logged.exc # NoExc THEN FetchStocksExcept(logged.exc)
                   ELSE ParseStocksResponse(data.val, tickers, t)
    IN  Finish(GetStockPricesExcept(fetched), c, ts)

(***************************************************************************)
(* Upstream answers of the market-data feed.                               *)
(***************************************************************************)
QuoteHeads == RateHeads

\* A row laid out in the order of the column list `cols`.
MkRow(cols, secid, last, open) ==
    Arr([i \in DOMAIN cols |->
            CASE cols[i] = "SECID" -> secid
              [] cols[i] = "LAST"  -> last
              [] cols[i] = "OPEN"  -> open
              [] OTHER             -> Str("TQBR")])

\* The cells (SECID, LAST, OPEN) of the rows the upstream may send.
RowCells ==
    {<<Str("SBER"), Num(100), Num(80)>>,     \* tracked, well-formed
     <<Str("VTBR"), Num(25), Num(24)>>,      \* a small positive price
     <<Str("SBER"), Num(50), Num(0)>>,       \* OPEN is 0
     <<Str("SBER"), Num(100), Num(-80)>>,    \* OPEN is negative
     <<Str("SBER"), Num(0), Num(80)>>,       \* LAST is 0
     <<Str("SBER"), Null, Num(80)>>,         \* LAST is null
     <<Str("SBER"), Num(100), Null>>,        \* OPEN is null
     <<Str("SBER"), Str("100"), Num(80)>>,   \* LAST is a string
     <<Str("AAPL"), Num(100), Num(80)>>}     \* untracked

RowsFor(cols) ==
    {MkRow(cols, r[1], r[2], r[3]) : r \in RowCells} \cup
    {Arr(<<Str("SBER")>>),                   \* too short
     Null}                                   \* the row is no list

RECURSIVE SeqsUpTo(_, _)
SeqsUpTo(S, n) ==
    IF n = 0 THEN {<<>>}
    ELSE LET shorter == SeqsUpTo(S, n - 1)
         IN  shorter \cup {Append(q, x) : q \in shorter, x \in S}

MarketData(cols, rows) ==
    Obj([marketdata |->
            Obj([columns |-> Arr([i \in DOMAIN cols |-> Str(cols[i])]),
                 data    |-> Arr(rows)])])

Columns == <<"SECID", "LAST", "OPEN">>
ColumnsPermuted == <<"BOARDID", "OPEN", "SECID", "LAST">>
ColumnsNoOpen == <<"SECID", "LAST">>

QuoteTables ==
    {MarketData(Columns, rows) : rows \in SeqsUpTo(RowsFor(Columns), MaxRows)}
    \cup {MarketData(ColumnsPermuted, rows) :
            rows \in SeqsUpTo(RowsFor(ColumnsPermuted), 1)}
    \cup {MarketData(ColumnsNoOpen, rows) :
            rows \in SeqsUpTo(RowsFor(ColumnsNoOpen), 1)}

QuotePayloads ==
    QuoteTables \cup
    {Null,                                         \* the document is no object
     Obj(EmptyDict),                               \* no marketdata key
     Obj([marketdata |-> Null]),                   \* marketdata is null
     Obj([marketdata |-> Obj([columns |-> Null, data |-> Arr(<<>>)])]),
     Obj([marketdata |->
            Obj([columns |-> Arr(<<Str("SECID"), Str("LAST"), Str("OPEN")>>),
                 data    |-> Null])])}

QuoteBodies ==
    {BodyFailed("ContentTypeError"), Body(FALSE, Null)} \cup
    {Body(TRUE, d) : d \in QuotePayloads}

(***************************************************************************)
(* The calls.  One operation runs at a time: a caller awaits the operation *)
(* it invoked before it invokes the next one.                              *)
(***************************************************************************)
Calls == {1}

NoOp == [name |-> "none", key |-> ""]
Op(name, key) == [name |-> name, key |-> key]
NoResp == [head |-> NoHead, body |-> NoBody]
NoRet == Ok(EmptyDict)

\* No list of supported keys has been asked for; no list object is held.
NoList == [kind |-> "none", list |-> <<>>]

\* The handler of the call has not answered.
NoHttp == [status_code |-> 0, content |-> EmptyDict]

RateKeys == {"usd", "USD", "Eur", "xyz"}
QuoteKeys == {"sber", "SBER", "Vtbr", "aapl"}

Init ==
    /\ tracked_currencies = <<"USD", "EUR", "CNY", "GBP", "JPY">>
    /\ cache = None
    /\ cache_timestamp = None
    /\ popular_tickers = <<"SBER", "GAZP", "VTBR", "YNDX", "ROSN", "LKOH", "MGNT">>
    /\ now = 0
    /\ pc = [c \in Calls |-> "idle"]
    /\ op = [c \in Calls |-> NoOp]
    /\ resp = [c \in Calls |-> NoResp]
    /\ ret = [c \in Calls |-> NoRet]
    /\ quotes_succeeded = FALSE
    /\ batch = [c \in Calls |-> NoRet]
    /\ listed = NoList
    /\ held = NoList
    /\ http = [c \in Calls |-> NoHttp]
    /\ gets = [c \in Calls |-> 0]

\* Time passes.
Tick ==
    /\ now < MaxClock
    /\ now' = now + 1
    /\ UNCHANGED <<tracked_currencies, cache, cache_timestamp, popular_tickers,
                   pc, op, resp, ret, quotes_succeeded, batch, listed, held,
                   http,
                   gets>>

\* A caller invokes operation `name` with argument `key`: the coroutine runs
\* up to its first await, the outbound GET, which it issues whatever the
\* cache holds.
Invoke(c, name, key) ==
    /\ pc[c] = "idle"
    /\ pc' = [pc EXCEPT ![c] = "get"]
    /\ op' = [op EXCEPT ![c] = Op(name, key)]
    /\ gets' = [gets EXCEPT ![c] = @ + 1]
    /\ UNCHANGED <<tracked_currencies, cache, cache_timestamp, popular_tickers,
                   now, resp, ret, quotes_succeeded, batch, listed, held, http>>

\* The caller takes the result of the operation it awaited.
Collect(c) ==
    /\ pc[c] = "done"
    /\ pc' = [pc EXCEPT ![c] = "idle"]
    /\ op' = [op EXCEPT ![c] = NoOp]
    /\ resp' = [resp EXCEPT ![c] = NoResp]
    /\ ret' = [ret EXCEPT ![c] = NoRet]
    /\ batch' = [batch EXCEPT ![c] = NoRet]
    /\ http' = [http EXCEPT ![c] = NoHttp]
    /\ gets' = [gets EXCEPT ![c] = 0]
    /\ UNCHANGED <<tracked_currencies, cache, cache_timestamp, popular_tickers,
                   now, quotes_succeeded, listed, held>>

CallGetRates(c) == Invoke(c, "get_rates", "")

CallGetSpecificRate(c) == \E key \in RateKeys : Invoke(c, "get_specific_rate", key)

\* get_cached_rates: return self._cache.  It has no await, so it runs from
\* call to return in one step.
CallGetCachedRates(c) ==
    /\ pc[c] = "idle"
    /\ pc' = [pc EXCEPT ![c] = "done"]
    /\ op' = [op EXCEPT ![c] = Op("get_cached_rates", "")]
    /\ ret' = [ret EXCEPT ![c] = Ok(cache)]
    /\ UNCHANGED <<tracked_currencies, cache, cache_timestamp, popular_tickers,
                   now, resp, quotes_succeeded, batch, listed, held, http,
                   gets>>

\* What the operation of call c hands to its caller once the fetch it awaits
\* has ended with `fetched`.
Returned(c, fetched) ==
    IF op[c].name \in {"get_specific_rate", "get_specific_stock"}
    THEN GetSpecific(fetched, op[c].key)
    ELSE fetched

IsRateCall(c) == op[c].name \in {"get_rates", "get_specific_rate"}
IsQuoteCall(c) == op[c].name \in {"get_stock_prices", "get_specific_stock"}

\* The coroutine of call c takes step `step` after the upstream answered r.
Resume(c, r, step, next) ==
    /\ resp' = [resp EXCEPT ![c] = r]
    /\ cache' = step.cache
    /\ cache_timestamp' = step.cache_timestamp
    /\ IF step.done
       THEN /\ pc' = [pc EXCEPT ![c] = "done"]
            /\ ret' = [ret EXCEPT ![c] = Returned(c, step.result)]
            /\ batch' = [batch EXCEPT ![c] = step.result]
       ELSE /\ pc' = [pc EXCEPT ![c] = next]
            /\ UNCHANGED <<ret, batch>>
    /\ quotes_succeeded' =
          (quotes_succeeded \/
             (IsQuoteCall(c) /\ step.done /\ step.result.exc = NoExc
                /\ step.result.val # EmptyDict))
    /\ UNCHANGED <<tracked_currencies, popular_tickers, now, op, listed, held,
                   http,
                   gets>>

\* session.get(...) of a get_rates completes.
RatesResponse(c) ==
    /\ pc[c] = "get"
    /\ IsRateCall(c)
    /\ \E h \in RateHeads :
          Resume(c, [resp[c] EXCEPT !.head = h],
                 GetRatesOnResponse(h, cache, cache_timestamp), "text")

\* response.text() of a get_rates completes.
RatesText(c) ==
    /\ pc[c] = "text"
    /\ IsRateCall(c)
    /\ \E b \in RateBodies :
          Resume(c, [resp[c] EXCEPT !.body = b],
                 GetRatesOnText(b, cache, cache_timestamp, tracked_currencies, now),
                 "done")

CallGetStockPrices(c) == Invoke(c, "get_stock_prices", "")

CallGetSpecificStock(c) ==
    \E key \in QuoteKeys : Invoke(c, "get_specific_stock", key)

\* session.get(...) of a get_stock_prices completes.
StocksResponse(c) ==
    /\ pc[c] = "get"
    /\ IsQuoteCall(c)
    /\ \E h \in QuoteHeads :
          Resume(c, [resp[c] EXCEPT !.head = h],
                 GetStockPricesOnResponse(h, cache, cache_timestamp), "json")

\* response.json() of a get_stock_prices completes.
StocksJson(c) ==
    /\ pc[c] = "json"
    /\ IsQuoteCall(c)
    /\ \E b \in QuoteBodies :
          Resume(c, [resp[c] EXCEPT !.body = b],
                 GetStockPricesOnJson(b, cache, cache_timestamp, popular_tickers, now),
                 "done")

Next ==
    \/ Tick
    \/ \E c \in Calls :
          \/ CallGetRates(c)
          \/ CallGetSpecificRate(c)
          \/ CallGetCachedRates(c)
          \/ RatesResponse(c)
          \/ RatesText(c)
          \/ CallGetStockPrices(c)
          \/ CallGetSpecificStock(c)
          \/ StocksResponse(c)
          \/ StocksJson(c)
          \/ Collect(c)

Spec == Init /\ [][Next]_vars

(***************************************************************************)
(* Properties.                                                             *)
(***************************************************************************)
FetchAllRates(c) == op[c].name = "get_rates"
FetchAllQuotes(c) == op[c].name = "get_stock_prices"

\* Call c returns to its caller in this step.
Returns(c) == pc[c] # "done" /\ pc'[c] = "done"

\* The mapping stored by the last successful fetch if there is one, else {}.
LastStored == IF cache.set THEN cache.m ELSE EmptyDict

BadStatus(r) == r.head.exc = NoExc /\ r.head.status # 200
Undecodable(r) ==
    /\ r.head.exc = NoExc /\ r.head.status = 200
    /\ r.body.exc = NoExc /\ ~r.body.text.valid
RequestFailed(r) ==
    \/ r.head.exc # NoExc
    \/ r.head.status = 200 /\ r.body.exc # NoExc
Decoded(r) ==
    /\ r.head.exc = NoExc /\ r.head.status = 200
    /\ r.body.exc = NoExc /\ r.body.text.valid

\* C1: a get_rates whose upstream answers with a status other than 200
\* returns the mapping stored by the last successful fetch, or {} if there
\* is none.
C1_BadStatusReturnsCache ==
    [][\A c \in Calls :
          (Returns(c) /\ FetchAllRates(c) /\ BadStatus(resp'[c]))
             => ret'[c] = Ok(LastStored)]_vars

\* C2: a get_rates whose upstream answers 200 with a body that is no JSON
\* returns the mapping stored by the last successful fetch, or {} if there
\* is none.
C2_BadJsonReturnsCache ==
    [][\A c \in Calls :
          (Returns(c) /\ FetchAllRates(c) /\ Undecodable(resp'[c]))
             => ret'[c] = Ok(LastStored)]_vars

\* C3: a get_rates whose request fails with an exception (connection
\* failure, timeout, a failed read of the body) returns the mapping stored by
\* the last successful fetch unchanged, or {} if there is none, and leaves
\* the cache as it was.
C3_TransportErrorReturnsCache ==
    [][\A c \in Calls :
          (Returns(c) /\ FetchAllRates(c) /\ RequestFailed(resp'[c]))
             => /\ ret'[c] = Ok(LastStored)
                /\ cache' = cache
                /\ cache_timestamp' = cache_timestamp]_vars

\* A timeout after a successful fetch has returned the mapping stored before,
\* whose records carry the time of that earlier fetch.
C3_Witness ==
    \E c \in Calls :
        /\ pc[c] = "done" /\ FetchAllRates(c)
        /\ resp[c].head.exc = "TimeoutError"
        /\ cache.set /\ ret[c] = Ok(cache.m)
        /\ "USD" \in DOMAIN ret[c].val
        /\ ret[c].val["USD"].timestamp < now

\* C4: every operation of either adapter ends by returning a value, never by
\* raising: a mapping for get_rates and get_stock_prices, a record or None
\* for get_specific_rate and get_specific_stock.
C4_NeverRaises ==
    \A c \in Calls :
        pc[c] = "done" =>
            /\ ret[c].exc = NoExc
            /\ op[c].name \in {"get_specific_rate", "get_specific_stock"}
                  => /\ DOMAIN ret[c].val = {"set", "m"}
                     /\ (PyUpper(op[c].key) \in {"XYZ", "AAPL"} => ret[c].val = None)

\* get_specific_rate has returned None although parsing the payload raised
\* TypeError inside _parse_rates.
C4_Witness ==
    \E c \in Calls :
        /\ pc[c] = "done"
        /\ op[c].name = "get_specific_rate"
        /\ Decoded(resp[c])
        /\ resp[c].body.text.json = Obj([Valute |-> Null])
        /\ ret[c] = Ok(None)

\* The fixed lists of tracked keys.
TrackedCodes == {"USD", "EUR", "CNY", "GBP", "JPY"}
TrackedTickers == {"SBER", "GAZP", "VTBR", "YNDX", "ROSN", "LKOH", "MGNT"}

\* The decoded document of an answer.
Json(r) == r.body.text.json

\* The document carries a valuta table; its entries by currency code.
HasValuteTable(d) ==
    d.k = "obj" /\ "Valute" \in DOMAIN d.f /\ d.f["Valute"].k = "obj"
ValuteTable(d) == d.f["Valute"].f

NonNumeric(x) ==
    x.k = "null" \/ (x.k = "str" /\ x.s \notin DOMAIN NumericStrings)

\* An entry that lacks Value or Previous, or holds a non-numeric value there.
Malformed(entry) ==
    /\ entry.k = "obj"
    /\ \E fld \in {"Value", "Previous"} :
          fld \notin DOMAIN entry.f \/ NonNumeric(entry.f[fld])

HasMalformedTrackedEntry(d) ==
    /\ HasValuteTable(d)
    /\ \E code \in TrackedCodes \cap DOMAIN ValuteTable(d) :
          Malformed(ValuteTable(d)[code])

\* C5: a decodable 200 answer in which a tracked entry lacks Value or
\* Previous, or holds null or a non-numeric string there, makes get_rates
\* return the empty mapping.
C5_MalformedEntryEmptiesBatch ==
    \A c \in Calls :
        (pc[c] = "done" /\ FetchAllRates(c) /\ Decoded(resp[c])
            /\ HasMalformedTrackedEntry(Json(resp[c])))
           => ret[c] = Ok(EmptyDict)

\* C6: a get_stock_prices whose upstream answers with a status other than
\* 200, fails, or sends an undecodable body returns the empty mapping; every
\* record it returns was built by this call (stamped with the current time),
\* and the call leaves the adapters' stored state alone.
C6_QuotesHaveNoFallback ==
    [][\A c \in Calls :
          (Returns(c) /\ FetchAllQuotes(c))
             => /\ ~Decoded(resp'[c]) => ret'[c] = Ok(EmptyDict)
                /\ ret'[c].exc = NoExc
                /\ \A k \in DOMAIN ret'[c].val : ret'[c].val[k].timestamp = now
                /\ cache' = cache]_vars

\* A get_stock_prices has returned {} on a bad status after an earlier one
\* had returned quotes.
C6_Witness ==
    \E c \in Calls :
        /\ pc[c] = "done" /\ FetchAllQuotes(c)
        /\ BadStatus(resp[c])
        /\ quotes_succeeded
        /\ ret[c] = Ok(EmptyDict)

\* The document is a columnar table: a list of column names, a list of rows.
IsQuoteTable(d) ==
    /\ d.k = "obj" /\ "marketdata" \in DOMAIN d.f
    /\ d.f["marketdata"].k = "obj"
    /\ {"columns", "data"} \subseteq DOMAIN d.f["marketdata"].f
    /\ d.f["marketdata"].f["columns"].k = "arr"
    /\ d.f["marketdata"].f["data"].k = "arr"
ColumnList(d) == d.f["marketdata"].f["columns"].a
RowList(d) == d.f["marketdata"].f["data"].a

HasColumn(d, name) == \E i \in DOMAIN ColumnList(d) : ColumnList(d)[i] = Str(name)
HasRequiredColumns(d) == \A name \in {"SECID", "LAST", "OPEN"} : HasColumn(d, name)
ColumnPos(d, name) ==
    CHOOSE i \in DOMAIN ColumnList(d) :
        /\ ColumnList(d)[i] = Str(name)
        /\ \A j \in 1..(i - 1) : ColumnList(d)[j] # Str(name)

\* Row i covers the three columns.
RowCovers(d, i) ==
    /\ RowList(d)[i].k = "arr"
    /\ \A name \in {"SECID", "LAST", "OPEN"} :
          ColumnPos(d, name) <= Len(RowList(d)[i].a)
RowCell(d, i, name) == RowList(d)[i].a[ColumnPos(d, name)]

\* Row i satisfies every condition: long enough, a tracked ticker, LAST and
\* OPEN numbers, LAST > 0.
RowAccepted(d, i) ==
    /\ RowCovers(d, i)
    /\ RowCell(d, i, "SECID").k = "str"
    /\ RowCell(d, i, "SECID").s \in TrackedTickers
    /\ RowCell(d, i, "LAST").k = "num"
    /\ RowCell(d, i, "OPEN").k = "num"
    /\ RowCell(d, i, "LAST").v > 0

\* The mapping holds a record of row i: its ticker and its LAST.
HoldsRecordOf(m, d, i) ==
    LET ticker == RowCell(d, i, "SECID").s
    IN  /\ ticker \in DOMAIN m
        /\ m[ticker].ticker = ticker
        /\ m[ticker].price = RowCell(d, i, "LAST").v

\* No later row that satisfies every condition carries the ticker of row i.
LastOfItsTicker(d, i) ==
    \A j \in DOMAIN RowList(d) :
        (j > i /\ RowAccepted(d, j))
           => RowCell(d, j, "SECID") # RowCell(d, i, "SECID")

QuoteTableReturned(c) ==
    /\ pc[c] = "done" /\ FetchAllQuotes(c) /\ Decoded(resp[c])
    /\ IsQuoteTable(Json(resp[c]))

\* C7 as stated: a table without one of SECID, LAST, OPEN yields the empty
\* mapping; otherwise every row that satisfies all conditions has its record
\* in the result.
C7_EveryAcceptedRowYieldsItsRecord ==
    \A c \in Calls :
        QuoteTableReturned(c) =>
            LET d == Json(resp[c])
            IN  IF ~HasRequiredColumns(d) THEN ret[c] = Ok(EmptyDict)
                ELSE \A i \in DOMAIN RowList(d) :
                        RowAccepted(d, i) => HoldsRecordOf(ret[c].val, d, i)

\* C7 amended: a table without one of SECID, LAST, OPEN yields the empty
\* mapping; otherwise the keys of the result are exactly the tickers of the
\* rows that satisfy all conditions, and each such row has its record in the
\* result unless a later such row carries the same ticker.
C7_AcceptedRowsSurviveBadRows ==
    \A c \in Calls :
        QuoteTableReturned(c) =>
            LET d == Json(resp[c])
            IN  IF ~HasRequiredColumns(d) THEN ret[c] = Ok(EmptyDict)
                ELSE /\ ret[c].exc = NoExc
                     /\ DOMAIN ret[c].val =
                           {RowCell(d, i, "SECID").s :
                               i \in {j \in DOMAIN RowList(d) : RowAccepted(d, j)}}
                     /\ \A i \in DOMAIN RowList(d) :
                           (RowAccepted(d, i) /\ LastOfItsTicker(d, i))
                              => HoldsRecordOf(ret[c].val, d, i)

\* A row that is no list came first, a well-formed row second, and the
\* well-formed row is in the result.
C7_Witness ==
    \E c \in Calls :
        /\ QuoteTableReturned(c)
        /\ HasRequiredColumns(Json(resp[c]))
        /\ Len(RowList(Json(resp[c]))) = 2
        /\ RowList(Json(resp[c]))[1] = Null
        /\ RowAccepted(Json(resp[c]), 2)
        /\ DOMAIN ret[c].val = {"VTBR"}

\* C8: every key of a mapping returned by get_rates is a tracked currency
\* code and every key of a mapping returned by get_stock_prices is a tracked
\* ticker, whatever the upstream sent and also when the mapping comes from
\* the cache.
C8_OnlyTrackedKeys ==
    \A c \in Calls :
        pc[c] = "done" =>
            /\ FetchAllRates(c) => DOMAIN ret[c].val \subseteq TrackedCodes
            /\ FetchAllQuotes(c) => DOMAIN ret[c].val \subseteq TrackedTickers
            /\ cache.set => DOMAIN cache.m \subseteq TrackedCodes

\* get_stock_prices has returned quotes from a table that also carried an
\* untracked ticker.
C8_Witness ==
    \E c \in Calls :
        /\ QuoteTableReturned(c)
        /\ HasRequiredColumns(Json(resp[c]))
        /\ \E i \in DOMAIN RowList(Json(resp[c])) :
              /\ RowCovers(Json(resp[c]), i)
              /\ RowCell(Json(resp[c]), i, "SECID") = Str("AAPL")
              /\ RowCell(Json(resp[c]), i, "LAST") = Num(100)
              /\ RowCell(Json(resp[c]), i, "OPEN") = Num(80)
        /\ ret[c].val # EmptyDict

\* C9: every record returned by get_stock_prices has price > 0, volume 0 and
\* its key as ticker, and stems from a row whose LAST is a number > 0; a
\* tracked row with numeric OPEN and a small positive LAST is accepted.
C9_QuotesArePositive ==
    \A c \in Calls :
        (pc[c] = "done" /\ FetchAllQuotes(c)) =>
            /\ \A k \in DOMAIN ret[c].val :
                  /\ ret[c].val[k].price > 0
                  /\ ret[c].val[k].volume = 0
                  /\ ret[c].val[k].ticker = k
            /\ (QuoteTableReturned(c) /\ HasRequiredColumns(Json(resp[c]))) =>
                  LET d == Json(resp[c])
                  IN  /\ \A k \in DOMAIN ret[c].val :
                            \E i \in DOMAIN RowList(d) :
                                /\ RowCovers(d, i)
                                /\ RowCell(d, i, "SECID") = Str(k)
                                /\ RowCell(d, i, "LAST").k = "num"
                                /\ RowCell(d, i, "LAST").v > 0
                                /\ RowCell(d, i, "LAST").v = ret[c].val[k].price
                      /\ \A i \in DOMAIN RowList(d) :
                            (RowAccepted(d, i) /\ RowCell(d, i, "LAST").v <= 25)
                               => RowCell(d, i, "SECID").s \in DOMAIN ret[c].val

\* The table held a tracked row with LAST 0 and the row VTBR 0.025 / 0.024:
\* the result holds VTBR at 0.025 and nothing else.
C9_Witness ==
    \E c \in Calls :
        /\ QuoteTableReturned(c)
        /\ RowList(Json(resp[c])) =
              <<MkRow(Columns, Str("SBER"), Num(0), Num(80)),
                MkRow(Columns, Str("VTBR"), Num(25), Num(24))>>
        /\ DOMAIN ret[c].val = {"VTBR"}
        /\ ret[c].val["VTBR"].price = 25

\* The number a numeric cell denotes.
NumberOf(x) == IF x.k = "num" THEN x.v ELSE NumericStrings[x.s]

WellFormedEntry(entry) ==
    /\ entry.k = "obj"
    /\ {"Value", "Previous"} \subseteq DOMAIN entry.f
    /\ \A fld \in {"Value", "Previous"} :
          entry.f[fld].k \in {"num", "str"} /\ ~NonNumeric(entry.f[fld])

\* A valuta table all of whose tracked entries are well-formed.
WellFormedRates(d) ==
    /\ HasValuteTable(d)
    /\ \A code \in TrackedCodes \cap DOMAIN ValuteTable(d) :
          WellFormedEntry(ValuteTable(d)[code])

RatesParsed(c) ==
    /\ pc[c] = "done" /\ FetchAllRates(c) /\ Decoded(resp[c])
    /\ WellFormedRates(Json(resp[c]))

\* r is n / d rounded to 4 decimals: a multiple of 10 fixed-point units at
\* most half a step away from n / d.
RoundedTo4(r, n, d) ==
    LET diff == r * d - n
        absDiff == IF diff < 0 THEN -diff ELSE diff
        absD == IF d < 0 THEN -d ELSE d
    IN  r % 10 = 0 /\ 2 * absDiff <= 10 * absD

\* C10 as stated: rate is Value, change is Value - Previous and
\* change_percent is exactly (Value - Previous) / Previous * 100, or 0 when
\* Previous is 0.
C10_RatesAreExact ==
    \A c \in Calls :
        RatesParsed(c) =>
            LET table == ValuteTable(Json(resp[c]))
            IN  /\ DOMAIN ret[c].val = TrackedCodes \cap DOMAIN table
                /\ \A code \in DOMAIN ret[c].val :
                      LET v == NumberOf(table[code].f["Value"])
                          p == NumberOf(table[code].f["Previous"])
                          rec == ret[c].val[code]
                      IN  /\ rec.currency = code \o "/RUB"
                          /\ rec.rate = v
                          /\ rec.change = v - p
                          /\ IF p = 0 THEN rec.change_percent = 0
                             ELSE rec.change_percent * p = (v - p) * 10000000

\* C10 amended: rate is Value, change is Value - Previous and change_percent
\* is (Value - Previous) / Previous * 100, or 0 when Previous is 0, each
\* rounded to 4 decimals; a tracked code absent from the payload is absent
\* from the result.
C10_RatesAreRounded ==
    \A c \in Calls :
        RatesParsed(c) =>
            LET table == ValuteTable(Json(resp[c]))
            IN  /\ ret[c].exc = NoExc
                /\ DOMAIN ret[c].val = TrackedCodes \cap DOMAIN table
                /\ \A code \in DOMAIN ret[c].val :
                      LET v == NumberOf(table[code].f["Value"])
                          p == NumberOf(table[code].f["Previous"])
                          rec == ret[c].val[code]
                      IN  /\ rec.currency = code \o "/RUB"
                          /\ RoundedTo4(rec.rate, v, 1)
                          /\ RoundedTo4(rec.change, v - p, 1)
                          /\ IF p = 0 THEN rec.change_percent = 0
                             ELSE RoundedTo4(rec.change_percent,
                                             (v - p) * 10000000, p)

\* A payload with USD (Previous 0, Value with a fifth decimal) and EUR but
\* no other tracked code has been parsed into exactly those two records.
C10_Witness ==
    \E c \in Calls :
        /\ RatesParsed(c)
        /\ DOMAIN ValuteTable(Json(resp[c])) = {"USD", "EUR", "XAU"}
        /\ ValuteTable(Json(resp[c]))["USD"] = Entry(Num(126), Num(0))
        /\ DOMAIN ret[c].val = {"USD", "EUR"}
        /\ ret[c].val["USD"].rate = 130
        /\ ret[c].val["USD"].change_percent = 0
        /\ ret[c].val["EUR"].change_percent = 5000000

\* r is n / d rounded to 2 decimals, in thousandths: a multiple of 10 at most
\* half a step away from n / d.
RoundedTo2(r, n, d) ==
    LET diff == r * d - n
        absDiff == IF diff < 0 THEN -diff ELSE diff
        absD == IF d < 0 THEN -d ELSE d
    IN  r % 10 = 0 /\ 2 * absDiff <= 10 * absD

\* C11: every row of a table with the three columns that satisfies all
\* conditions (and is not replaced by a later row of the same ticker) has a
\* record with price LAST and change_percent (LAST - OPEN) / OPEN * 100
\* rounded to 2 decimals, for every OPEN other than 0, negative ones
\* included, and 0 when OPEN is 0.
C11_QuoteChangePercent ==
    \A c \in Calls :
        (QuoteTableReturned(c) /\ HasRequiredColumns(Json(resp[c]))) =>
            LET d == Json(resp[c])
            IN  \A i \in DOMAIN RowList(d) :
                    (RowAccepted(d, i) /\ LastOfItsTicker(d, i)) =>
                        LET last == RowCell(d, i, "LAST").v
                            open == RowCell(d, i, "OPEN").v
                            ticker == RowCell(d, i, "SECID").s
                        IN  /\ ticker \in DOMAIN ret[c].val
                            /\ ret[c].val[ticker].price = last
                            /\ IF open = 0
                               THEN ret[c].val[ticker].change_percent = 0
                               ELSE RoundedTo2(ret[c].val[ticker].change_percent,
                                               (last - open) * 100000, open)

FetchOne(c) == op[c].name \in {"get_specific_rate", "get_specific_stock"}

\* The upper-case spelling of each key a caller passes.
UpperCased ==
    [k \in RateKeys \cup QuoteKeys |->
        CASE k \in {"usd", "USD"}   -> "USD"
          [] k = "Eur"              -> "EUR"
          [] k = "xyz"              -> "XYZ"
          [] k \in {"sber", "SBER"} -> "SBER"
          [] k = "Vtbr"             -> "VTBR"
          [] k = "aapl"             -> "AAPL"]

\* C12: get_specific_rate / get_specific_stock return without raising; the
\* value is the record the awaited get_rates / get_stock_prices holds under
\* the upper-cased key, and None when that batch has no such key.
C12_FetchOneLooksUpUpperCased ==
    \A c \in Calls :
        (pc[c] = "done" /\ FetchOne(c)) =>
            /\ batch[c].exc = NoExc
            /\ ret[c].exc = NoExc
            /\ LET key == UpperCased[op[c].key]
               IN  IF key \in DOMAIN batch[c].val
                   THEN ret[c].val = [set |-> TRUE, m |-> batch[c].val[key]]
                   ELSE ret[c].val = [set |-> FALSE, m |-> <<>>]

\* get_specific_rate("usd") has returned the USD record of its batch, and
\* the batch held EUR as well.
C12_Witness ==
    \E c \in Calls :
        /\ pc[c] = "done" /\ op[c] = Op("get_specific_rate", "usd")
        /\ DOMAIN batch[c].val = {"USD", "EUR"}
        /\ ret[c].val.set
        /\ ret[c].val.m = batch[c].val["USD"]
        /\ ret[c].val.m.currency = "USD/RUB"

\* get_specific_stock("aapl") has returned None from a batch with quotes.
C12_WitnessAbsent ==
    \E c \in Calls :
        /\ pc[c] = "done" /\ op[c] = Op("get_specific_stock", "aapl")
        /\ batch[c].val # EmptyDict
        /\ ret[c] = Ok(None)

(***************************************************************************)
(* The lists of supported keys, and callers that change the list object    *)
(* they were handed.                                                       *)
(***************************************************************************)
\* How many elements a caller adds to or removes from a list it holds.
MaxListEdits == 1

\* GET /currencies/supported: the answer carries CBRService.tracked_currencies
\* itself, so the caller holds the list object of the adapter.
GetSupportedCurrencies ==
    /\ listed' = [kind |-> "currencies", list |-> tracked_currencies]
    /\ held' = [kind |-> "tracked_currencies", list |-> <<>>]
    /\ UNCHANGED <<tracked_currencies, cache, cache_timestamp, popular_tickers,
                   now, pc, op, resp, ret, quotes_succeeded, batch, http,
                   gets>>

\* MOEXService.get_supported_tickers: self.popular_tickers.copy(), a new
\* list object.
GetSupportedTickers ==
    /\ listed' = [kind |-> "tickers", list |-> popular_tickers]
    /\ held' = [kind |-> "copy", list |-> popular_tickers]
    /\ UNCHANGED <<tracked_currencies, cache, cache_timestamp, popular_tickers,
                   now, pc, op, resp, ret, quotes_succeeded, batch, http,
                   gets>>

\* The content of the list object the caller holds.
HeldList == IF held.kind = "tracked_currencies" THEN tracked_currencies ELSE held.list

\* list.append("XAU") and list.pop() on a list l.
ListEdits(l) ==
    {Append(l, "XAU")} \cup
    (IF l = <<>> THEN {} ELSE {SubSeq(l, 1, Len(l) - 1)})

\* The length of the fixed list the held list started from.
FixedLen ==
    IF held.kind = "tracked_currencies"
    THEN Cardinality(TrackedCodes) ELSE Cardinality(TrackedTickers)

\* The caller changes the list it holds in place: the adapter's list when
\* that is the object it holds, its own copy otherwise.
MutateHeld ==
    /\ held.kind # "none"
    /\ \E l \in ListEdits(HeldList) :
          /\ Len(l) - FixedLen <= MaxListEdits
          /\ FixedLen - Len(l) <= MaxListEdits
          /\ IF held.kind = "tracked_currencies"
             THEN tracked_currencies' = l /\ UNCHANGED held
             ELSE held' = [held EXCEPT !.list = l] /\ UNCHANGED tracked_currencies
    /\ UNCHANGED <<cache, cache_timestamp, popular_tickers, now, pc, op, resp,
                   ret, quotes_succeeded, batch, listed, http,
                   gets>>

\* A few bodies of the currency feed: undecodable, two well-formed tables,
\* a table whose USD lacks Value, a table whose USD has a null Value.
FewRateBodies ==
    {Body(FALSE, Null),
     Body(TRUE, Table(Entry(Num(150), Num(100)), Absent, Entry(Num(150), Num(100)))),
     Body(TRUE, Table(Entry(Num(-20), Num(40)), Entry(Num(150), Num(100)), Absent)),
     Body(TRUE, Table(Obj([Previous |-> Num(100)]), Absent, Absent)),
     Body(TRUE, Table(Entry(Null, Num(100)), Absent, Absent))}

\* A few bodies of the quote feed.
FewQuoteBodies ==
    {Body(FALSE, Null),
     Body(TRUE, MarketData(Columns, <<MkRow(Columns, Str("SBER"), Num(100), Num(80)),
                                      MkRow(Columns, Str("AAPL"), Num(100), Num(80))>>))}

\* response.text() of a get_rates completes with one of the few bodies.
RatesTextFew(c) ==
    /\ pc[c] = "text"
    /\ IsRateCall(c)
    /\ \E b \in FewRateBodies :
          Resume(c, [resp[c] EXCEPT !.body = b],
                 GetRatesOnText(b, cache, cache_timestamp, tracked_currencies, now),
                 "done")

\* response.json() of a get_stock_prices completes with one of the few bodies.
StocksJsonFew(c) ==
    /\ pc[c] = "json"
    /\ IsQuoteCall(c)
    /\ \E b \in FewQuoteBodies :
          Resume(c, [resp[c] EXCEPT !.body = b],
                 GetStockPricesOnJson(b, cache, cache_timestamp, popular_tickers, now),
                 "done")

NextLists ==
    \/ GetSupportedCurrencies
    \/ GetSupportedTickers
    \/ MutateHeld
    \/ \E c \in Calls :
          \/ CallGetRates(c)
          \/ RatesResponse(c)
          \/ RatesTextFew(c)
          \/ CallGetStockPrices(c)
          \/ StocksResponse(c)
          \/ StocksJsonFew(c)
          \/ Collect(c)

SpecLists == Init /\ [][NextLists]_vars

\* C13: whatever a caller does to a list of supported keys it was handed,
\* the adapters keep their fixed lists, every later call for a list answers
\* the fixed list in its order, and get_rates / get_stock_prices return keys
\* of the fixed lists only.
C13_SupportedListsAreCopies ==
    /\ tracked_currencies = <<"USD", "EUR", "CNY", "GBP", "JPY">>
    /\ popular_tickers = <<"SBER", "GAZP", "VTBR", "YNDX", "ROSN", "LKOH", "MGNT">>
    /\ listed.kind = "currencies" => listed.list = <<"USD", "EUR", "CNY", "GBP", "JPY">>
    /\ listed.kind = "tickers" =>
          listed.list = <<"SBER", "GAZP", "VTBR", "YNDX", "ROSN", "LKOH", "MGNT">>
    /\ \A c \in Calls :
          pc[c] = "done" =>
              /\ FetchAllRates(c) => DOMAIN ret[c].val \subseteq TrackedCodes
              /\ FetchAllQuotes(c) => DOMAIN ret[c].val \subseteq TrackedTickers

(***************************************************************************)
(* The HTTP handlers: each awaits one adapter operation and answers.       *)
(***************************************************************************)
\* What the body of a handler ends with: a dict to send (status 200), an
\* HTTPException raised with a status code, or another exception.
HttpOk(content) == [exc |-> NoExc, status_code |-> 200, content |-> content]
HttpError(code) == [exc |-> "HTTPException", status_code |-> code, content |-> EmptyDict]
Propagates(e) == [exc |-> e, status_code |-> 0, content |-> EmptyDict]

\* The dict a handler builds from a CurrencyRate / a StockData.
RateJson(rate) ==
    [currency |-> rate.currency, rate |-> rate.rate, change |-> rate.change,
     change_percent |-> rate.change_percent, timestamp |-> rate.timestamp]
StockJson(data) ==
    [ticker |-> data.ticker, price |-> data.price,
     change_percent |-> data.change_percent, volume |-> data.volume,
     timestamp |-> data.timestamp]

\* Mutant: an empty mapping is answered with an error.
GetCbrRatesTryRejectsEmpty(rates, t) ==
    IF rates.exc # NoExc THEN Propagates(rates.exc)
    ELSE IF rates.val = EmptyDict THEN HttpError(503)
    ELSE HttpOk([source |-> "cbr",
                 data |-> [k \in DOMAIN rates.val |-> RateJson(rates.val[k])],
                 timestamp |-> t,
                 currencies_count |-> Cardinality(DOMAIN rates.val),
                 success |-> TRUE])

\* The try body of get_cbr_rates once get_rates ended with `rates`.
GetCbrRatesTry(rates, t) ==
    IF rates.exc # NoExc THEN Propagates(rates.exc)
    ELSE HttpOk([source |-> "cbr",
                 data |-> [k \in DOMAIN rates.val |-> RateJson(rates.val[k])],
                 timestamp |-> t,
                 currencies_count |-> Cardinality(DOMAIN rates.val),
                 success |-> TRUE])

\* The try body of get_moex_stocks once get_stock_prices ended with `stocks`.
GetMoexStocksTry(stocks, t) ==
    IF stocks.exc # NoExc THEN Propagates(stocks.exc)
    ELSE HttpOk([source |-> "moex",
                 data |-> [k \in DOMAIN stocks.val |-> StockJson(stocks.val[k])],
                 timestamp |-> t,
                 stocks_count |-> Cardinality(DOMAIN stocks.val),
                 success |-> TRUE])

\* except Exception of the two list handlers: answered 500.
ListExcept(r) == IF IsInstance(r.exc, "Exception") THEN HttpError(500) ELSE r

\* The try body of get_specific_cbr_rate once get_specific_rate ended with
\* `rate`: `if not rate` raises the 404.
GetSpecificCbrRateTry(rate, t) ==
    IF rate.exc # NoExc THEN Propagates(rate.exc)
    ELSE IF ~rate.val.set THEN HttpError(404)
    ELSE HttpOk([source |-> "cbr", data |-> RateJson(rate.val.m),
                 timestamp |-> t, success |-> TRUE])

\* The try body of get_specific_moex_stock.
GetSpecificMoexStockTry(stock, t) ==
    IF stock.exc # NoExc THEN Propagates(stock.exc)
    ELSE IF ~stock.val.set THEN HttpError(404)
    ELSE HttpOk([source |-> "moex", data |-> StockJson(stock.val.m),
                 timestamp |-> t, success |-> TRUE])

\* Mutant: no `except HTTPException: raise` before the catch-all.
SpecificExceptCatchAll(r) ==
    IF IsInstance(r.exc, "Exception") THEN HttpError(500) ELSE r

\* The except clauses of the two per-key handlers: an HTTPException is
\* raised again as it is, any other exception is answered 500.
SpecificExcept(r) ==
    IF IsInstance(r.exc, "HTTPException") THEN r
    ELSE IF IsInstance(r.exc, "Exception") THEN HttpError(500)
    ELSE r

\* The handler that awaited operation o, once it ended with r.
Handler(o, r, t) ==
    CASE o.name = "get_rates"          -> ListExcept(GetCbrRatesTry(r, t))
      [] o.name = "get_stock_prices"   -> ListExcept(GetMoexStocksTry(r, t))
      [] o.name = "get_specific_rate"  -> SpecificExcept(GetSpecificCbrRateTry(r, t))
      [] o.name = "get_specific_stock" -> SpecificExcept(GetSpecificMoexStockTry(r, t))

\* GET /rates/cbr/{currency}: the handler awaits
\* get_specific_rate(currency.upper()).
GetSpecificCbrRate(c) ==
    \E currency \in RateKeys : Invoke(c, "get_specific_rate", PyUpper(currency))

\* GET /stocks/moex/{ticker}: the handler awaits
\* get_specific_stock(ticker.upper()).
GetSpecificMoexStock(c) ==
    \E ticker \in QuoteKeys : Invoke(c, "get_specific_stock", PyUpper(ticker))

\* The handler of call c answers: the dict it returned, or the status of
\* the HTTPException it raised.
Respond(c) ==
    /\ pc[c] = "done"
    /\ http[c] = NoHttp
    /\ LET r == Handler(op[c], ret[c], now)
       IN  http' = [http EXCEPT ![c] = [status_code |-> r.status_code,
                                        content |-> r.content]]
    /\ UNCHANGED <<tracked_currencies, cache, cache_timestamp, popular_tickers,
                   now, pc, op, resp, ret, quotes_succeeded, batch, listed, held,
                   gets>>

NextHttp ==
    \E c \in Calls :
          \/ CallGetRates(c)
          \/ GetSpecificCbrRate(c)
          \/ RatesResponse(c)
          \/ RatesText(c)
          \/ CallGetStockPrices(c)
          \/ GetSpecificMoexStock(c)
          \/ StocksResponse(c)
          \/ StocksJson(c)
          \/ Respond(c)
          \/ Collect(c)

SpecHttp == Init /\ [][NextHttp]_vars

Answered(c) == http[c] # NoHttp

\* C14: the handlers of GET /rates/cbr/{code} and GET /stocks/moex/{ticker}
\* answer 404 whenever the batch fetched for the request lacks the key, 200
\* with the record of the key otherwise, and never 500.
C14_AbsentKeyIs404 ==
    \A c \in Calls :
        (Answered(c) /\ FetchOne(c)) =>
            /\ http[c].status_code # 500
            /\ IF op[c].key \in DOMAIN batch[c].val
               THEN /\ http[c].status_code = 200
                    /\ http[c].content.success
                    /\ http[c].content.data.timestamp
                          = batch[c].val[op[c].key].timestamp
                    /\ IF op[c].name = "get_specific_rate"
                       THEN /\ http[c].content.source = "cbr"
                            /\ http[c].content.data.currency = op[c].key \o "/RUB"
                            /\ http[c].content.data.rate = batch[c].val[op[c].key].rate
                       ELSE /\ http[c].content.source = "moex"
                            /\ http[c].content.data.ticker = op[c].key
                            /\ http[c].content.data.price = batch[c].val[op[c].key].price
               ELSE /\ http[c].status_code = 404
                    /\ ret[c] = Ok(None)

\* GET /rates/cbr/USD has been answered 404 because the upstream answered
\* with status 500.
C14_Witness ==
    \E c \in Calls :
        /\ Answered(c) /\ op[c] = Op("get_specific_rate", "USD")
        /\ BadStatus(resp[c])
        /\ http[c].status_code = 404

\* C15: the handlers of GET /rates/cbr and GET /stocks/moex answer 200 for
\* every upstream outcome, with success true, the source tag, one data entry
\* per key of the fetched mapping and a count equal to the number of entries.
C15_ListEndpointsNeverFail ==
    \A c \in Calls :
        (Answered(c) /\ (FetchAllRates(c) \/ FetchAllQuotes(c))) =>
            /\ http[c].status_code = 200
            /\ http[c].content.success
            /\ DOMAIN http[c].content.data = DOMAIN ret[c].val
            /\ IF FetchAllRates(c)
               THEN /\ http[c].content.source = "cbr"
                    /\ http[c].content.currencies_count
                          = Cardinality(DOMAIN http[c].content.data)
               ELSE /\ http[c].content.source = "moex"
                    /\ http[c].content.stocks_count
                          = Cardinality(DOMAIN http[c].content.data)

\* GET /rates/cbr has been answered 200 with no data and a count of 0
\* although the request to the upstream timed out.
C15_Witness ==
    \E c \in Calls :
        /\ Answered(c) /\ FetchAllRates(c)
        /\ resp[c].head.exc = "TimeoutError"
        /\ http[c].status_code = 200
        /\ http[c].content.data = EmptyDict
        /\ http[c].content.currencies_count = 0

\* _parse_rates raised on the decoded payload r, so get_rates ended in its
\* except clause.
ParseRaised(r) ==
    /\ Decoded(r)
    /\ ParseRates(Json(r), tracked_currencies, now).exc # NoExc

\* The step is a get_cached_rates of call c.
GetsCached(c) == op[c] = NoOp /\ op'[c].name = "get_cached_rates"

\* C16: the cache and its timestamp are unset at construction; a get_rates
\* that ends in a status other than 200, an undecodable body, a transport
\* error or any other exception leaves both as they were; get_cached_rates
\* returns the cache (None at construction) and changes nothing; both change
\* only in the step in which a fetch that decoded its payload returns, and
\* then to the mapping it returns and the time of that step.
C16_CacheWrittenOnlyBySuccessfulFetch ==
    /\ cache = None /\ cache_timestamp = None
    /\ [][/\ \A c \in Calls :
               (Returns(c) /\ FetchAllRates(c)
                  /\ (\/ BadStatus(resp'[c])
                      \/ Undecodable(resp'[c])
                      \/ RequestFailed(resp'[c])
                      \/ ParseRaised(resp'[c])))
                  => cache' = cache /\ cache_timestamp' = cache_timestamp
          /\ \A c \in Calls :
               GetsCached(c)
                  => /\ ret'[c] = Ok(cache)
                     /\ cache' = cache /\ cache_timestamp' = cache_timestamp
          /\ (cache' # cache \/ cache_timestamp' # cache_timestamp)
                  => \E c \in Calls :
                        /\ Returns(c) /\ IsRateCall(c) /\ Decoded(resp'[c])
                        /\ batch'[c].exc = NoExc
                        /\ cache' = Some(batch'[c].val)
                        /\ cache_timestamp' = Some(now)]_vars

\* A get_rates has ended in the except clause (TypeError inside
\* _parse_rates) while the cache held rates stored at an earlier time.
C16_Witness ==
    \E c \in Calls :
        /\ pc[c] = "done" /\ FetchAllRates(c)
        /\ ParseRaised(resp[c])
        /\ cache.set /\ cache.m # EmptyDict
        /\ cache_timestamp.set /\ cache_timestamp.m < now

\* get_cached_rates has returned None on an adapter that never fetched.
C16_WitnessUnset ==
    \E c \in Calls :
        /\ pc[c] = "done" /\ op[c].name = "get_cached_rates"
        /\ ret[c] = Ok(None) /\ cache = None /\ cache_timestamp = None

\* Call c runs one of the fetch operations of an adapter.
Fetches(c) == IsRateCall(c) \/ IsQuoteCall(c)

\* C18: a fetch operation of either adapter has issued exactly one GET when
\* it returns, whatever the upstream answered and whatever the cache held
\* when it was invoked; a get_specific_rate whose payload parses stores the
\* parsed mapping and the time in the cache, as get_rates does.
C18_OneGetPerFetch ==
    /\ [](\A c \in Calls :
             /\ (pc[c] = "done" /\ Fetches(c)) => gets[c] = 1
             /\ (pc[c] \notin {"done", "idle"}) => gets[c] = 1)
    /\ [][\A c \in Calls :
             (Returns(c) /\ IsRateCall(c) /\ Decoded(resp'[c])
                /\ ~ParseRaised(resp'[c]))
                => /\ cache' = Some(ParseRates(Json(resp'[c]),
                                              tracked_currencies, now).val)
                   /\ cache_timestamp' = Some(now)
                   /\ batch'[c] = Ok(cache'.m)]_vars

\* get_specific_rate("xyz") has returned None after one GET, and the cache
\* holds the rates of the payload it fetched.
C18_Witness ==
    \E c \in Calls :
        /\ pc[c] = "done" /\ op[c] = Op("get_specific_rate", "xyz")
        /\ gets[c] = 1
        /\ ret[c] = Ok(None)
        /\ Decoded(resp[c])
        /\ cache = Some(batch[c].val) /\ "USD" \in DOMAIN cache.m
        /\ cache_timestamp = Some(now)

\* A tracked entry of the table that lacks Value or Previous or holds a
\* non-numeric string there.
LacksFieldOrNumber(entry) ==
    /\ entry.k = "obj"
    /\ \E fld \in {"Value", "Previous"} :
          \/ fld \notin DOMAIN entry.f
          \/ entry.f[fld].k = "str" /\ entry.f[fld].s \notin DOMAIN NumericStrings

\* A tracked entry that is null or holds a null.
HoldsNull(entry) ==
    \/ entry.k # "obj"
    \/ \E fld \in {"Value", "Previous"} \cap DOMAIN entry.f : entry.f[fld].k = "null"

\* The batch of document d is invalidated by a missing field or a
\* non-numeric string, and by nothing else.
InvalidatedByFieldOrString(d) ==
    /\ HasValuteTable(d)
    /\ \E code \in TrackedCodes \cap DOMAIN ValuteTable(d) :
          LacksFieldOrNumber(ValuteTable(d)[code])
    /\ \A code \in TrackedCodes \cap DOMAIN ValuteTable(d) :
          ~HoldsNull(ValuteTable(d)[code])

\* C20: a get_rates that decodes a 200 answer in which a tracked entry lacks
\* a field or holds a non-numeric string returns {}, replaces the cache by
\* {} and sets the cache timestamp to the time of the call; and a get_rates
\* that meets a transport failure while the cache is {} returns {}.  (C16:
\* nothing between the two changes the cache.)
C20_InvalidatedBatchIsCached ==
    [][\A c \in Calls :
          /\ (Returns(c) /\ FetchAllRates(c) /\ Decoded(resp'[c])
                /\ InvalidatedByFieldOrString(Json(resp'[c])))
                => /\ ret'[c] = Ok(EmptyDict)
                   /\ cache' = Some(EmptyDict)
                   /\ cache_timestamp' = Some(now)
          /\ (Returns(c) /\ FetchAllRates(c) /\ RequestFailed(resp'[c])
                /\ cache = Some(EmptyDict))
                => /\ ret'[c] = Ok(EmptyDict)
                   /\ cache' = Some(EmptyDict)
                   /\ cache_timestamp' = cache_timestamp]_vars

\* A get_rates has stored {} at a later time than the adapter was built:
\* its payload's USD entry has no Value.
C20_Witness ==
    \E c \in Calls :
        /\ pc[c] = "done" /\ FetchAllRates(c)
        /\ Decoded(resp[c])
        /\ InvalidatedByFieldOrString(Json(resp[c]))
        /\ "USD" \in DOMAIN ValuteTable(Json(resp[c]))
        /\ ValuteTable(Json(resp[c]))["USD"].k = "obj"
        /\ "Value" \notin DOMAIN ValuteTable(Json(resp[c]))["USD"].f
        /\ ret[c] = Ok(EmptyDict)
        /\ cache = Some(EmptyDict) /\ cache_timestamp = Some(now) /\ now > 0

\* A get_rates has met a timeout while the cache was {} and has returned {}.
C20_WitnessFailure ==
    \E c \in Calls :
        /\ pc[c] = "done" /\ FetchAllRates(c)
        /\ resp[c].head.exc = "TimeoutError"
        /\ cache = Some(EmptyDict) /\ cache_timestamp.set
        /\ cache_timestamp.m < now
        /\ ret[c] = Ok(EmptyDict)

(***************************************************************************)
(* Overlapping get_rates calls on the one CBRService.  The coroutines run  *)
(* on one event loop: a coroutine runs alone from one await to the next,   *)
(* and another coroutine may run while it is suspended.  get_rates awaits  *)
(* session.get(...), response.text() and, on every way out of the two      *)
(* `async with` blocks, the closing of the response and of the session;    *)
(* an exception reaches the except clauses only after the blocks are left. *)
(***************************************************************************)
Tasks == {1, 2}

InitConcurrent ==
    /\ tracked_currencies = <<"USD", "EUR", "CNY", "GBP", "JPY">>
    /\ cache = None
    /\ cache_timestamp = None
    /\ popular_tickers = <<"SBER", "GAZP", "VTBR", "YNDX", "ROSN", "LKOH", "MGNT">>
    /\ now = 0
    /\ pc = [c \in Tasks |-> "idle"]
    /\ op = [c \in Tasks |-> NoOp]
    /\ resp = [c \in Tasks |-> NoResp]
    /\ ret = [c \in Tasks |-> NoRet]
    /\ quotes_succeeded = FALSE
    /\ batch = [c \in Tasks |-> NoRet]
    /\ listed = NoList
    /\ held = NoList
    /\ http = [c \in Tasks |-> NoHttp]
    /\ gets = [c \in Tasks |-> 0]

\* The exception that leaves the `async with` blocks of a get_rates whose
\* upstream answered r, or NoExc if the blocks are left by a return.
Raised(r, codes, t) ==
    IF r.head.exc # NoExc THEN r.head.exc
    ELSE IF r.head.status # 200 THEN NoExc
    ELSE IF r.body.exc # NoExc THEN r.body.exc
    ELSE IF IsInstance(JsonLoads(r.body.text).exc, "JSONDecodeError") THEN NoExc
    ELSE ParseRates(JsonLoads(r.body.text).val, codes, t).exc

\* The coroutine of call c takes step `step` after the upstream answered r;
\* a step that ends the body of the `async with` blocks leaves the coroutine
\* suspended in their exits, with the value of a return statement in batch.
Suspend(c, r, step, next) ==
    /\ resp' = [resp EXCEPT ![c] = r]
    /\ cache' = step.cache
    /\ cache_timestamp' = step.cache_timestamp
    /\ IF step.done
       THEN /\ pc' = [pc EXCEPT ![c] = "exit"]
            /\ batch' = [batch EXCEPT ![c] = step.result]
       ELSE /\ pc' = [pc EXCEPT ![c] = next]
            /\ UNCHANGED batch
    /\ UNCHANGED <<tracked_currencies, popular_tickers, now, op, ret,
                   quotes_succeeded, listed, held, http, gets>>

\* session.get(...) of call c completes.
RatesResponseOverlapped(c) ==
    /\ pc[c] = "get"
    /\ IsRateCall(c)
    /\ \E h \in RateHeads :
          Suspend(c, [resp[c] EXCEPT !.head = h],
                  GetRatesOnResponse(h, cache, cache_timestamp), "text")

\* response.text() of call c completes.
RatesTextOverlapped(c) ==
    /\ pc[c] = "text"
    /\ IsRateCall(c)
    /\ \E b \in FewRateBodies :
          Suspend(c, [resp[c] EXCEPT !.body = b],
                  GetRatesOnText(b, cache, cache_timestamp, tracked_currencies, now),
                  "done")

\* Mutant: the caller is handed what the cache holds when the call ends.
ExitReturnsCache(c) ==
    /\ pc[c] = "exit"
    /\ pc' = [pc EXCEPT ![c] = "done"]
    /\ ret' = [ret EXCEPT ![c] = Ok(CacheOrEmpty(cache))]
    /\ batch' = [batch EXCEPT ![c] = Ok(CacheOrEmpty(cache))]
    /\ UNCHANGED <<tracked_currencies, cache, cache_timestamp, popular_tickers,
                   now, op, resp, quotes_succeeded, listed, held, http, gets>>

\* The exits of the `async with` blocks of call c complete: a return
\* statement's value is handed to the caller; an exception is handled by the
\* except clauses, which read the cache now.
Exit(c) ==
    /\ pc[c] = "exit"
    /\ pc' = [pc EXCEPT ![c] = "done"]
    /\ LET e == Raised(resp[c], tracked_currencies, now)
           result == IF e # NoExc THEN GetRatesExcept(e, cache) ELSE batch[c]
       IN  /\ ret' = [ret EXCEPT ![c] = result]
           /\ batch' = [batch EXCEPT ![c] = result]
    /\ UNCHANGED <<tracked_currencies, cache, cache_timestamp, popular_tickers,
                   now, op, resp, quotes_succeeded, listed, held, http, gets>>

NextConcurrent ==
    \/ Tick
    \/ \E c \in Tasks :
          \/ CallGetRates(c)
          \/ RatesResponseOverlapped(c)
          \/ RatesTextOverlapped(c)
          \/ Exit(c)
          \/ Collect(c)

SpecConcurrent == InitConcurrent /\ [][NextConcurrent]_vars

\* The mapping _parse_rates builds at time t from the document of body b.
ParsedAt(b, t) == ParseRates(b.text.json, tracked_currencies, t)

\* m is the complete mapping of one single response, parsed at time t.
MappingOfOneResponse(m, t) ==
    \E b \in FewRateBodies :
        /\ b.exc = NoExc /\ b.text.valid
        /\ ParsedAt(b, t) = Ok(m)

\* C17: however get_rates calls on the one adapter interleave, the cache
\* and its timestamp are both unset or both set, and a set cache is the
\* complete mapping parsed from one single response at the time the
\* timestamp names.
C17_CacheNeverHalfUpdated ==
    /\ cache.set <=> cache_timestamp.set
    /\ cache.set => MappingOfOneResponse(cache.m, cache_timestamp.m)

\* Two get_rates calls overlap (both are suspended in the exits of their
\* `async with` blocks), both parsed rates, and the cache holds the mapping
\* of the second call, which differs from the mapping of the first.
C17_Witness ==
    /\ pc[1] = "exit" /\ pc[2] = "exit"
    /\ Decoded(resp[1]) /\ Decoded(resp[2])
    /\ batch[1].val # EmptyDict /\ batch[2].val # EmptyDict
    /\ batch[1] # batch[2]
    /\ cache = Some(batch[2].val)
    /\ cache_timestamp = Some(now)

\* Call c stores in this step: its body has been read and parsed.
Stores(c) ==
    /\ pc[c] = "text" /\ pc'[c] = "exit"
    /\ Decoded(resp'[c])
    /\ Raised(resp'[c], tracked_currencies, now) = NoExc

\* Call c has parsed its response and is about to return, or has returned.
Succeeded(c) ==
    /\ pc[c] \in {"exit", "done"}
    /\ Decoded(resp[c])
    /\ Raised(resp[c], tracked_currencies, now) = NoExc

\* Call c returns to its caller in this step of the overlapped calls.
Finishes(c) == pc[c] = "exit" /\ pc'[c] = "done"

\* Every call has completed.
AllCompleted == \A c \in Tasks : pc[c] \in {"idle", "done"}

\* C19 as stated: a successful call returns the mapping parsed from its own
\* response, and when the call that finishes last is successful, the cache
\* equals the mapping it returns.
C19_CacheIsLastFinishers ==
    [][\A c \in Tasks :
          (Finishes(c) /\ Succeeded(c)) =>
              /\ \E t \in 0..now : ret'[c] = ParsedAt(resp[c].body, t)
              /\ AllCompleted' => cache' = Some(ret'[c].val)]_vars

\* C19, amended: a successful call returns the mapping parsed from its own
\* response; the cache changes only in the step in which a call has read
\* and parsed its response body, and then to the mapping that call returns:
\* the cache is the mapping of the successful call that stored last.
C19_CacheIsLastStorers ==
    [][/\ \A c \in Tasks :
             (Finishes(c) /\ Succeeded(c)) =>
                 /\ \E t \in 0..now : ret'[c] = ParsedAt(resp[c].body, t)
                 /\ ret'[c] = batch[c]
       /\ \A c \in Tasks :
             Stores(c) =>
                 /\ batch'[c] = ParsedAt(resp'[c].body, now)
                 /\ cache' = Some(batch'[c].val)
                 /\ cache_timestamp' = Some(now)
       /\ (cache' # cache \/ cache_timestamp' # cache_timestamp)
             => \E c \in Tasks : Stores(c)]_vars

\* Both calls have completed successfully with different mappings; call 2
\* parsed its response at a later time than call 1, and the cache holds the
\* mapping of call 2.
C19_Witness ==
    /\ pc[1] = "done" /\ pc[2] = "done"
    /\ Decoded(resp[1]) /\ Decoded(resp[2])
    /\ ret[1].exc = NoExc /\ ret[2].exc = NoExc
    /\ ret[1].val # EmptyDict /\ ret[2].val # EmptyDict
    /\ ret[1] # ret[2]
    /\ "USD" \in DOMAIN ret[1].val /\ "USD" \in DOMAIN ret[2].val
    /\ ret[1].val["USD"].timestamp < ret[2].val["USD"].timestamp
    /\ cache = Some(ret[2].val)

====
